---- MODULE Spec2Model ----
(***************************************************************************)
(* Model of mmd_uuunyaa_tools/asset_search/panels.py: the asset state      *)
(* resolver (Utilities), the search operator with its generation-stamped   *)
(* thumbnail completions (AssetSearch) and the download/import operators.  *)
(***************************************************************************)
EXTENDS Integers, Sequences, FiniteSets, TLC

VARIABLES
    ASSETS,         \* the catalog, in ASSETS.values() order: a sequence of asset descriptions
    extracted,      \* ids for which ASSETS.is_extracted(id) is true
    contents,       \* CONTENT_CACHE: url -> Content or None
    tasks,          \* CONTENT_CACHE: url -> Task or None
    query,          \* context.scene.mmd_uuunyaa_tools_asset_search.query
    result,         \* context.scene.mmd_uuunyaa_tools_asset_search.result
    PREVIEWS,       \* keys of the global preview collection
    region_redraw,  \* the region's redraw tag (set by region.tag_redraw())
    pending,        \* completion closures handed to async_get_content and not invoked yet
    time_ns,        \* the latest reading of time.time_ns()
    stamps,         \* history: the update_time each execute() of AssetSearch stored
    import_calls,   \* history: the calls made to ASSETS.execute_import_action
    popup,          \* what AssetDetailPopup.draw drew last, or None
    last,           \* history: the last execute() of AssetSearch or completion that ran
    loads,          \* the collection PREVIEWS names: whether it is open, and (history)
                    \* asset id -> calls of PREVIEWS.load while it was open
    requested,      \* history: the asset ids the latest execute() of AssetSearch requested
    downloads,      \* the calls of async_get_content made by AssetDownload, in order
    threads         \* the calls in progress on other threads: handler, search, resolver

vars == <<ASSETS, extracted, contents, tasks, query, result, PREVIEWS,
          region_redraw, pending, time_ns, stamps, import_calls, popup, last,
          loads, requested, downloads, threads>>

catalogVars == <<ASSETS, extracted, contents, tasks>>
viewVars == <<result, PREVIEWS, region_redraw, loads>>
searchVars == <<query, result, PREVIEWS, region_redraw, loads, pending, time_ns, stamps, requested>>
dispatchVars == <<import_calls, popup, downloads, threads>>

-----------------------------------------------------------------------------
(* Bounds of the model *)

MaxSearches == 2    \* executions of AssetSearch
MaxPending == 4     \* completion closures outstanding at once
MaxItems == 2       \* length of result.asset_items up to which AddAssetThumbnail is invoked
MaxOver == 3        \* assets in the largest catalog beyond max_search_result_count
MaxImports == 2     \* calls of ASSETS.execute_import_action
MaxDownloads == 2   \* calls of async_get_content made by AssetDownload

-----------------------------------------------------------------------------
(* Values *)

None == [none |-> TRUE]

Min(a, b) == IF a <= b THEN a ELSE b

Two10 == 2^10
Two15 == 2^15
Two16 == 2^16

AssetType == {"MODEL_MMD", "LIGHTING"}
TagNames == {"a", "b", "c"}

\* str.lower() on the alphabet of the model
LowerChar(c) == CASE c = "X" -> "x" [] c = "Y" -> "y" [] OTHER -> c
Lower(s) == [i \in 1..Len(s) |-> LowerChar(s[i])]

\* needle in hay (Python's substring test on str)
IsSubstring(needle, hay) ==
    \E i \in 0..(Len(hay) - Len(needle)) : SubSeq(hay, i + 1, i + Len(needle)) = needle

thumbnail_url(id) == <<"thumbnail", id>>
download_url(id) == <<"download", id>>

AssetDescription(id, type, tag_names, keywords) ==
    [id |-> id, type |-> type, tag_names |-> tag_names, keywords |-> keywords,
     thumbnail_url |-> thumbnail_url(id), download_url |-> download_url(id)]

Content(state, url) ==
    [state |-> state, filepath |-> IF state = "CACHED" THEN <<"file", url>> ELSE None]

\* a record that is not CACHED, whose filepath is not valid: a path that holds
\* no archive
InvalidContent(state, url) == [state |-> state, filepath |-> [invalid |-> url]]

Task(state) == [state |-> state]

ContentState == {"FETCHING", "CACHED", "FAILED"}
TaskState == {"QUEUING", "RUNNING", "DONE"}

-----------------------------------------------------------------------------
(* The clock.  time.time_ns() is an unbounded integer of about 2^61; it is   *)
(* kept here in limbs:                                                      *)
(*   time_ns = ((epoch * 2^16 + hi) * 2^16 + lo) * 2^10 + sub               *)

TimeAdvance(t, d) ==
    LET s == t.sub + d.ns
        lo1 == t.lo + (s \div Two10)
        hi1 == t.hi + (lo1 \div Two16)
    IN [epoch |-> t.epoch + d.epochs + (hi1 \div Two16),
        hi |-> hi1 % Two16, lo |-> lo1 % Two16, sub |-> s % Two10]

\* time_ns >> 10, as epoch * 2^32 + hi * 2^16 + lo
ShiftRight10(t) == [epoch |-> t.epoch, hi |-> t.hi, lo |-> t.lo]

\* utilities.to_int32: the low 32 bits read as a signed integer
to_int32(v) ==
    IF v.hi >= Two15 THEN (v.hi - Two16) * Two16 + v.lo ELSE v.hi * Two16 + v.lo

\* the amounts by which the clock advances between two readings: less than
\* 1024 ns, 1024 ns, and 2^32 units of 1024 ns
ClockDeltas ==
    {[epochs |-> 0, ns |-> 400], [epochs |-> 0, ns |-> 1024], [epochs |-> 1, ns |-> 0]}

InitTime == [epoch |-> 407000, hi |-> 32767, lo |-> 65535, sub |-> 100]

-----------------------------------------------------------------------------
(* Utilities *)

try_get_content(url) == contents[url]
try_get_task(url) == tasks[url]
is_extracted(id) == id \in extracted

\* Faulty variant: is_importable counting an outstanding task as importable
is_importable_or_task(asset) ==
    \/ is_extracted(asset.id)
    \/ try_get_content(asset.download_url) # None
    \/ try_get_task(asset.download_url) # None

is_importable(asset) ==
    \/ is_extracted(asset.id)
    \/ try_get_content(asset.download_url) # None

AssetStateOf(state, content, task) == [state |-> state, content |-> content, task |-> task]

\* Faulty variant: get_asset_state looking at the cache before the extraction
get_asset_state_content_first(asset) ==
    LET content == try_get_content(asset.download_url) IN
    IF content # None /\ content.state = "CACHED" THEN AssetStateOf("CACHED", content, None)
    ELSE IF content # None /\ content.state = "FAILED" THEN AssetStateOf("FAILED", content, None)
    ELSE IF is_extracted(asset.id) THEN AssetStateOf("EXTRACTED", None, None)
    ELSE IF content # None THEN AssetStateOf("UNKNOWN", None, None)
    ELSE LET task == try_get_task(asset.download_url) IN
         IF task = None THEN AssetStateOf("INITIALIZED", None, None)
         ELSE IF task.state \in {"QUEUING", "RUNNING"} THEN AssetStateOf("DOWNLOADING", None, task)
         ELSE AssetStateOf("UNKNOWN", None, None)

\* Faulty variant: get_asset_state taking a task that is neither QUEUING nor
\* RUNNING for no task at all
get_asset_state_done_initialized(asset) ==
    IF is_extracted(asset.id) THEN AssetStateOf("EXTRACTED", None, None)
    ELSE LET content == try_get_content(asset.download_url) IN
        IF content # None
        THEN IF content.state = "CACHED" THEN AssetStateOf("CACHED", content, None)
             ELSE IF content.state = "FAILED" THEN AssetStateOf("FAILED", content, None)
             ELSE AssetStateOf("UNKNOWN", None, None)
        ELSE LET task == try_get_task(asset.download_url) IN
             IF task # None /\ task.state \in {"QUEUING", "RUNNING"}
             THEN AssetStateOf("DOWNLOADING", None, task)
             ELSE AssetStateOf("INITIALIZED", None, None)

get_asset_state(asset) ==
    IF is_extracted(asset.id) THEN AssetStateOf("EXTRACTED", None, None)
    ELSE LET content == try_get_content(asset.download_url) IN
        IF content # None
        THEN IF content.state = "CACHED" THEN AssetStateOf("CACHED", content, None)
             ELSE IF content.state = "FAILED" THEN AssetStateOf("FAILED", content, None)
             ELSE AssetStateOf("UNKNOWN", None, None)
        ELSE LET task == try_get_task(asset.download_url) IN
             IF task = None THEN AssetStateOf("INITIALIZED", None, None)
             ELSE IF task.state \in {"QUEUING", "RUNNING"} THEN AssetStateOf("DOWNLOADING", None, task)
             ELSE AssetStateOf("UNKNOWN", None, None)

-----------------------------------------------------------------------------
(* AssetSearch *)

max_search_result_count == 50

\* PREVIEWS.load(asset.id, ...) counted in the collection's history
load(collection, asset_id) ==
    IF ~collection.open THEN collection
    ELSE [collection EXCEPT !.count =
            [id \in DOMAIN @ \cup {asset_id} |->
                IF id = asset_id THEN (IF id \in DOMAIN @ THEN @[id] + 1 ELSE 1) ELSE @[id]]]

\* Faulty variant: _on_thumbnail_fetched without the comparison of update_time
on_thumbnail_fetched_unchecked(st, update_time, asset_id) ==
    [result |-> [st.result EXCEPT !.asset_items = Append(@, asset_id)],
     PREVIEWS |-> st.PREVIEWS \cup {asset_id},
     loads |-> IF asset_id \notin st.PREVIEWS THEN load(st.loads, asset_id) ELSE st.loads,
     region_redraw |-> TRUE]

\* Faulty variant: _on_thumbnail_fetched returning early for an asset whose
\* thumbnail is loaded already
on_thumbnail_fetched_once_loaded(st, update_time, asset_id) ==
    IF st.result.update_time # update_time \/ asset_id \in st.PREVIEWS THEN st
    ELSE [result |-> [st.result EXCEPT !.asset_items = Append(@, asset_id)],
          PREVIEWS |-> st.PREVIEWS \cup {asset_id},
          loads |-> load(st.loads, asset_id),
          region_redraw |-> TRUE]

\* _on_thumbnail_fetched on the view state st = [result, PREVIEWS, loads, region_redraw]
on_thumbnail_fetched(st, update_time, asset_id) ==
    IF st.result.update_time # update_time THEN st
    ELSE [result |-> [st.result EXCEPT !.asset_items = Append(@, asset_id)],
          PREVIEWS |-> st.PREVIEWS \cup {asset_id},
          loads |-> IF asset_id \notin st.PREVIEWS THEN load(st.loads, asset_id) ELSE st.loads,
          region_redraw |-> TRUE]

enabled_tag_names(q) == {q.tags[i].name : i \in {j \in DOMAIN q.tags : q.tags[j].enabled}}

\* Faulty variant: the tag filter passing an asset that has any one of the enabled tags
tag_filter_any(asset, q) ==
    \/ enabled_tag_names(q) = {}
    \/ asset.tag_names \cap enabled_tag_names(q) # {}

tag_filter(asset, q) ==
    Cardinality(enabled_tag_names(q)) = Cardinality(asset.tag_names \cap enabled_tag_names(q))

cached_filter(asset, q) == IF q.is_cached THEN is_importable(asset) ELSE TRUE

asset_matches(asset, q) ==
    /\ q.type = asset.type
    /\ tag_filter(asset, q)
    /\ IsSubstring(Lower(q.text), asset.keywords)
    /\ cached_filter(asset, q)

search_results(q) == SelectSeq(ASSETS, LAMBDA asset : asset_matches(asset, q))

display_count(hit_count) == Min(max_search_result_count, hit_count)

\* Faulty variant: the loop of execute() over every match instead of the first 50
displayed_all(found) == found

\* search_results[:max_search_result_count]
displayed(found) == SubSeq(found, 1, Min(max_search_result_count, Len(found)))

reset_result(st, hit_count, update_time) ==
    [st EXCEPT !.result = [count |-> display_count(hit_count), hit_count |-> hit_count,
                           asset_items |-> <<>>, update_time |-> update_time]]

\* one iteration of the loop of execute(): async_get_content invokes the
\* completion of an asset in sync before it returns
issue_fetch(st, asset, update_time, sync) ==
    IF asset.id \in sync THEN on_thumbnail_fetched(st, update_time, asset.id) ELSE st

\* the iterations lo..hi of the loop, in order.  The range is halved, and the
\* state after the first half is computed (done = done) before the second half
\* starts, to keep the evaluation shallow.
RECURSIVE issue_range(_, _, _, _, _, _)
issue_range(st, shown, update_time, sync, lo, hi) ==
    IF lo > hi THEN st
    ELSE IF lo = hi THEN issue_fetch(st, shown[lo], update_time, sync)
    ELSE LET done == issue_range(st, shown, update_time, sync, lo, (lo + hi) \div 2)
         IN IF done = done
            THEN issue_range(done, shown, update_time, sync, ((lo + hi) \div 2) + 1, hi)
            ELSE done

\* the loop of execute() over the displayed matches
issue_fetches(st, shown, update_time, sync) ==
    issue_range(st, shown, update_time, sync, 1, Len(shown))

\* Faulty variant: execute() resetting the result after the requests instead of before
execute_view_reset_last(st, found, update_time, sync) ==
    reset_result(issue_fetches(st, displayed(found), update_time, sync), Len(found), update_time)

\* lines 122-134 of execute() on the view state
execute_view(st, found, update_time, sync) ==
    issue_fetches(reset_result(st, Len(found), update_time), displayed(found), update_time, sync)

Closure(n, update_time, asset_id) == [search |-> n, update_time |-> update_time, asset |-> asset_id]

ViewState ==
    [result |-> result, PREVIEWS |-> PREVIEWS, loads |-> loads, region_redraw |-> region_redraw]

SetView(st) ==
    /\ result' = st.result
    /\ PREVIEWS' = st.PREVIEWS
    /\ loads' = st.loads
    /\ region_redraw' = st.region_redraw

\* the ids of the matches execute() would request thumbnails for
ShownIds ==
    LET shown == displayed(search_results(query))
    IN {shown[i].id : i \in DOMAIN shown}

\* AssetSearch.execute; now is what time.time_ns() returns and sync is the set of
\* assets whose completion is invoked inside async_get_content
Search(now, sync) ==
    /\ Len(stamps) < MaxSearches
    /\ time_ns' = now
    /\ LET found == search_results(query)
           shown == displayed(found)
           update_time == to_int32(ShiftRight10(now))
           n == Len(stamps) + 1
           issued == {Closure(n, update_time, shown[i].id) :
                        i \in {j \in DOMAIN shown : shown[j].id \notin sync}}
       IN /\ Cardinality(pending) + Cardinality(issued) <= MaxPending
          /\ SetView(execute_view(ViewState, found, update_time, sync))
          /\ pending' = pending \cup issued
          /\ stamps' = Append(stamps, update_time)
          /\ last' = [op |-> "search", sync |-> sync,
                      requests |-> [i \in DOMAIN shown |-> shown[i].thumbnail_url]]
          /\ requested' = {shown[i].id : i \in DOMAIN shown}
    /\ UNCHANGED <<catalogVars, query, dispatchVars>>

\* the content cache invokes one completion closure
Deliver(c) ==
    /\ c \in pending
    /\ pending' = pending \ {c}
    /\ SetView(on_thumbnail_fetched(ViewState, c.update_time, c.asset))
    /\ last' = [op |-> "deliver", closure |-> c]
    /\ UNCHANGED <<catalogVars, query, time_ns, stamps, requested, dispatchVars>>

\* AddAssetThumbnail.execute on the view state
add_asset_thumbnail(st, update_time, asset_id) ==
    IF st.result.update_time # update_time THEN st
    ELSE [st EXCEPT !.result.asset_items = Append(@, asset_id)]

\* the operator mmd_uuunyaa_tools.add_asset_thumbnail is invoked with the
\* properties asset_id and update_time
AddAssetThumbnail(asset_id, update_time) ==
    /\ Len(result.asset_items) < MaxItems
    /\ SetView(add_asset_thumbnail(ViewState, update_time, asset_id))
    /\ last' = [op |-> "add_asset_thumbnail", asset_id |-> asset_id, update_time |-> update_time]
    /\ UNCHANGED <<catalogVars, query, pending, time_ns, stamps, requested, dispatchVars>>

\* the user edits the query properties
SetQuery(q) ==
    /\ q # query
    /\ query' = q
    /\ UNCHANGED <<catalogVars, viewVars, pending, time_ns, stamps, requested, dispatchVars, last>>

-----------------------------------------------------------------------------
(* AssetImport and AssetDetailPopup *)

CatalogIds == {ASSETS[i].id : i \in DOMAIN ASSETS}

\* whether ASSETS[asset_id] raises KeyError: the id is not in the catalog
is_missing(asset_id) == asset_id \notin CatalogIds

\* ASSETS[asset_id], for an id of the catalog
AssetOf(asset_id) == ASSETS[CHOOSE i \in DOMAIN ASSETS : ASSETS[i].id = asset_id]

\* content.filepath if content is not None else None
archive_path(content) == IF content # None THEN content.filepath ELSE None

\* Faulty variant: the import action left out when there is no content
import_action_calls_skip_absent(calls, asset, content) ==
    IF content = None THEN calls
    ELSE Append(calls, [asset_id |-> asset.id, filepath |-> archive_path(content)])

\* the calls of ASSETS.execute_import_action after line 188
import_action_calls(calls, asset, content) ==
    Append(calls, [asset_id |-> asset.id, filepath |-> archive_path(content)])

\* ASSETS.execute_import_action: the catalog may extract the archive it is given
execute_import_action(asset_id, filepath) ==
    extracted' \in IF filepath = None THEN {extracted} ELSE {extracted, extracted \cup {asset_id}}

\* AssetImport.execute; ASSETS[self.asset_id] raises KeyError for an unknown id
AssetImport(asset_id) ==
    /\ Len(import_calls) < MaxImports
    /\ IF is_missing(asset_id)
       THEN /\ last' = [op |-> "import", asset_id |-> asset_id, outcome |-> "KeyError"]
            /\ UNCHANGED <<extracted, import_calls>>
       ELSE LET asset == AssetOf(asset_id)
                content == try_get_content(asset.download_url)
            IN /\ import_calls' = import_action_calls(import_calls, asset, content)
               /\ execute_import_action(asset.id, archive_path(content))
               /\ last' = [op |-> "import", asset_id |-> asset_id, outcome |-> "FINISHED"]
    /\ UNCHANGED <<ASSETS, contents, tasks, searchVars, popup, downloads, threads>>

\* the operator the popup offers for an asset state (lines 233-252)
offered_operator(asset_state) ==
    CASE asset_state = "INITIALIZED" -> "asset_download"
      [] asset_state = "DOWNLOADING" -> "asset_download_cancel"
      [] asset_state = "CACHED" -> "asset_import"
      [] asset_state = "EXTRACTED" -> "asset_import"
      [] OTHER -> "asset_download"

\* AssetDetailPopup.draw
DrawDetailPopup(asset_id) ==
    /\ IF is_missing(asset_id)
       THEN /\ last' = [op |-> "detail", asset_id |-> asset_id, outcome |-> "KeyError"]
            /\ UNCHANGED popup
       ELSE LET resolved == get_asset_state(AssetOf(asset_id))
            IN /\ popup' = [asset_id |-> asset_id, resolved |-> resolved,
                            operator |-> offered_operator(resolved.state)]
               /\ last' = [op |-> "detail", asset_id |-> asset_id, outcome |-> "FINISHED"]
    /\ UNCHANGED <<catalogVars, searchVars, import_calls, downloads, threads>>

-----------------------------------------------------------------------------
(* AssetDownload and AssetDownloadCancel, and the content cache's fetches *)

\* Faulty variant: a completion of the download that appends to the result as
\* the completion of a thumbnail does
on_fetched_appending(st, asset_id, content) ==
    [st EXCEPT !.result.asset_items = Append(@, asset_id)]

\* AssetDownload.__on_fetched on the view state: it prints and writes nothing
on_fetched(st, asset_id, content) == st

\* the calls of CONTENT_CACHE.async_get_content after line 152
download_requests(calls, asset) ==
    Append(calls, [asset_id |-> asset.id, url |-> asset.download_url, delivered |-> FALSE])

\* CONTENT_CACHE.async_get_content on the cache's tasks: a fetch is queued
\* unless the content is cached or a fetch of the url is outstanding
async_get_content(url) ==
    IF (contents[url] # None /\ contents[url].state = "CACHED") \/ tasks[url] # None
    THEN tasks
    ELSE [tasks EXCEPT ![url] = Task("QUEUING")]

\* the states of a content record in which the cache invokes the completions
Terminal(content) == content # None /\ content.state \in {"CACHED", "FAILED"}

\* Faulty variant: execute() of AssetDownload finishing silently for an id the
\* catalog does not know
AssetDownload_ignoring_unknown(asset_id, sync) ==
    /\ Len(downloads) < MaxDownloads
    /\ IF is_missing(asset_id)
       THEN /\ last' = [op |-> "download", asset_id |-> asset_id, outcome |-> "FINISHED"]
            /\ UNCHANGED <<tasks, downloads, viewVars>>
       ELSE LET asset == AssetOf(asset_id)
                content == try_get_content(asset.download_url)
                issued == download_requests(downloads, asset)
                inside == sync /\ Terminal(content) /\ Len(issued) > Len(downloads)
            IN /\ downloads' = IF inside THEN [issued EXCEPT ![Len(issued)].delivered = TRUE]
                                ELSE issued
               /\ tasks' = async_get_content(asset.download_url)
               /\ SetView(IF inside THEN on_fetched(ViewState, asset.id, content) ELSE ViewState)
               /\ last' = [op |-> "download", asset_id |-> asset_id, outcome |-> "FINISHED"]
    /\ UNCHANGED <<ASSETS, extracted, contents, query, pending, time_ns, stamps, requested,
                   import_calls, popup, threads>>

\* AssetDownload.execute; ASSETS[self.asset_id] raises KeyError for an unknown
\* id.  With sync the cache invokes the completion inside async_get_content.
AssetDownload(asset_id, sync) ==
    /\ Len(downloads) < MaxDownloads
    /\ IF is_missing(asset_id)
       THEN /\ last' = [op |-> "download", asset_id |-> asset_id, outcome |-> "KeyError"]
            /\ UNCHANGED <<tasks, downloads, viewVars>>
       ELSE LET asset == AssetOf(asset_id)
                content == try_get_content(asset.download_url)
                issued == download_requests(downloads, asset)
                inside == sync /\ Terminal(content) /\ Len(issued) > Len(downloads)
            IN /\ downloads' = IF inside THEN [issued EXCEPT ![Len(issued)].delivered = TRUE]
                                ELSE issued
               /\ tasks' = async_get_content(asset.download_url)
               /\ SetView(IF inside THEN on_fetched(ViewState, asset.id, content) ELSE ViewState)
               /\ last' = [op |-> "download", asset_id |-> asset_id, outcome |-> "FINISHED"]
    /\ UNCHANGED <<ASSETS, extracted, contents, query, pending, time_ns, stamps, requested,
                   import_calls, popup, threads>>

\* the content cache invokes the completion of the i-th download request
DeliverDownload(i) ==
    /\ i \in DOMAIN downloads
    /\ ~downloads[i].delivered
    /\ Terminal(contents[downloads[i].url])
    /\ downloads' = [downloads EXCEPT ![i].delivered = TRUE]
    /\ SetView(on_fetched(ViewState, downloads[i].asset_id, contents[downloads[i].url]))
    /\ last' = [op |-> "on_fetched", request |-> i]
    /\ UNCHANGED <<catalogVars, query, pending, time_ns, stamps, requested,
                   import_calls, popup, threads>>

\* AssetDownloadCancel.poll
AssetDownloadCancel_poll == FALSE

\* the operator mmd_uuunyaa_tools.asset_download_cancel is invoked: execute()
\* prints and returns, and does not run when poll() fails
AssetDownloadCancel(asset_id) ==
    /\ last' = [op |-> "download_cancel", asset_id |-> asset_id,
                outcome |-> IF AssetDownloadCancel_poll THEN "FINISHED" ELSE "poll failed"]
    /\ UNCHANGED <<catalogVars, searchVars, dispatchVars>>

\* the content cache starts the fetch queued at url
CacheRun(url) ==
    /\ tasks[url] # None /\ tasks[url].state = "QUEUING"
    /\ tasks' = [tasks EXCEPT ![url] = Task("RUNNING")]
    /\ UNCHANGED <<ASSETS, extracted, contents, searchVars, dispatchVars, last>>

\* the fetch running at url ends: the cache stores the content record and
\* removes the task
CacheFinish(url, content) ==
    /\ tasks[url] # None /\ tasks[url].state = "RUNNING"
    /\ contents' = [contents EXCEPT ![url] = content]
    /\ tasks' = [tasks EXCEPT ![url] = None]
    /\ UNCHANGED <<ASSETS, extracted, searchVars, dispatchVars, last>>

\* the records a fetch of url ends with
FetchOutcomes(url) == {Content("CACHED", url), Content("FAILED", url), InvalidContent("FAILED", url)}

-----------------------------------------------------------------------------
(* The search coordinator on a catalog of three assets *)

Tags(ea, eb) == <<[name |-> "a", enabled |-> ea], [name |-> "b", enabled |-> eb]>>

Query(type, text, tags, is_cached) ==
    [type |-> type, text |-> text, tags |-> tags, is_cached |-> is_cached]

MainCatalog ==
    << AssetDescription(1, "MODEL_MMD", {"a", "b"}, <<"x", "y">>),
       AssetDescription(2, "MODEL_MMD", {"a"}, <<"x">>),
       AssetDescription(3, "MODEL_MMD", {}, <<"y", "x">>) >>

MainQueries ==
    { Query("MODEL_MMD", <<>>, Tags(FALSE, FALSE), FALSE),
      Query("MODEL_MMD", <<"X", "Y">>, Tags(FALSE, FALSE), FALSE),
      Query("MODEL_MMD", <<"X">>, Tags(TRUE, FALSE), TRUE) }

CatalogUrls(catalog) ==
    {catalog[i].download_url : i \in DOMAIN catalog} \cup {catalog[i].thumbnail_url : i \in DOMAIN catalog}

InitResult == [count |-> 0, hit_count |-> 0, asset_items |-> <<>>, update_time |-> 0]

\* bpy.utils.previews.new(): an open collection without thumbnails
NewCollection == [open |-> TRUE, count |-> <<>>]

\* no call is in progress on another thread
NoThreads == [handler |-> None, search |-> None, resolver |-> None]

InitView ==
    /\ result = InitResult
    /\ PREVIEWS = {}
    /\ region_redraw = FALSE
    /\ pending = {}
    /\ time_ns = InitTime
    /\ stamps = <<>>
    /\ import_calls = <<>>
    /\ popup = None
    /\ last = [op |-> "init"]
    /\ loads = NewCollection
    /\ requested = {}
    /\ downloads = <<>>
    /\ threads = NoThreads

InitCatalog(catalog) ==
    /\ ASSETS = catalog
    /\ extracted = {}
    /\ contents = [u \in CatalogUrls(catalog) |->
                     IF u = download_url(1) THEN Content("CACHED", u) ELSE None]
    /\ tasks = [u \in CatalogUrls(catalog) |->
                     IF u = download_url(2) THEN Task("RUNNING") ELSE None]
    /\ query = Query("MODEL_MMD", <<>>, Tags(FALSE, FALSE), FALSE)
    /\ InitView

Init == InitCatalog(MainCatalog)

Next ==
    \/ \E d \in ClockDeltas, sync \in SUBSET ShownIds : Search(TimeAdvance(time_ns, d), sync)
    \/ \E c \in pending : Deliver(c)
    \/ \E q \in MainQueries : SetQuery(q)

Spec == Init /\ [][Next]_vars

\* the search coordinator on the first two assets of the catalog, together with
\* the operator AddAssetThumbnail, which nothing in panels.py invokes
StampsSeen == {0} \cup {stamps[i] : i \in DOMAIN stamps}

NextOperators ==
    \/ Next
    \/ \E id \in CatalogIds, u \in StampsSeen : AddAssetThumbnail(id, u)

InitOperators == InitCatalog(SubSeq(MainCatalog, 1, 2))

SpecOperators == InitOperators /\ [][NextOperators]_vars

-----------------------------------------------------------------------------
(* The search on a catalog of one asset: the asset's tags, its extraction,   *)
(* the cache's content and task at its download url and the query are drawn *)
(* from every combination.                                                  *)

OneAsset(type, tag_names) == <<AssetDescription(1, type, tag_names, <<"x", "y">>)>>

ContentOrNone(url) ==
    {None} \cup {Content(st, url) : st \in ContentState}
           \cup {InvalidContent(st, url) : st \in ContentState \ {"CACHED"}}
TaskOrNone == {None} \cup {Task(st) : st \in TaskState}

\* the query's tag list holds every tag name once, enabled or not
TagLists == {<<[name |-> "a", enabled |-> ea], [name |-> "b", enabled |-> eb],
               [name |-> "c", enabled |-> ec]>> : ea \in BOOLEAN, eb \in BOOLEAN, ec \in BOOLEAN}

InitSnapshot(types, tag_sets) ==
    /\ \E type \in types, tag_names \in tag_sets : ASSETS = OneAsset(type, tag_names)
    /\ extracted \in SUBSET {1}
    /\ \E content \in ContentOrNone(download_url(1)), task \in TaskOrNone :
          /\ contents = [u \in {thumbnail_url(1), download_url(1)} |->
                           IF u = download_url(1) THEN content ELSE None]
          /\ tasks = [u \in {thumbnail_url(1), download_url(1)} |->
                           IF u = download_url(1) THEN task ELSE None]

InitFilter ==
    /\ InitSnapshot(AssetType, SUBSET TagNames)
    /\ \E tags \in TagLists, is_cached \in BOOLEAN :
          query = Query("MODEL_MMD", <<"X">>, tags, is_cached)
    /\ InitView

NextFilter ==
    \/ \E sync \in SUBSET ShownIds :
          Search(TimeAdvance(time_ns, [epochs |-> 0, ns |-> 1024]), sync)
    \/ \E c \in pending : Deliver(c)

SpecFilter == InitFilter /\ [][NextFilter]_vars

-----------------------------------------------------------------------------
(* The search on catalogs around the display limit.  The second asset of a  *)
(* catalog is of another type than the query's.  The content cache invokes  *)
(* the completions inside async_get_content, but for the assets of Late.    *)

CapCatalog(n) ==
    [i \in 1..n |-> AssetDescription(i, IF i = 2 THEN "LIGHTING" ELSE "MODEL_MMD", {"a"}, <<"x">>)]

CapSizes == {0, 1, 2} \cup (max_search_result_count .. (max_search_result_count + MaxOver))

Late == {1, max_search_result_count + 1}

InitCap ==
    /\ \E n \in CapSizes :
          /\ ASSETS = CapCatalog(n)
          /\ contents = [u \in CatalogUrls(CapCatalog(n)) |-> None]
          /\ tasks = [u \in CatalogUrls(CapCatalog(n)) |-> None]
    /\ extracted = {}
    /\ query = Query("MODEL_MMD", <<"X">>, Tags(FALSE, FALSE), FALSE)
    /\ InitView

NextCap ==
    \/ \E sync \in {ShownIds \ late : late \in SUBSET Late} :
          Search(TimeAdvance(time_ns, [epochs |-> 0, ns |-> 1024]), sync)
    \/ \E c \in pending : Deliver(c)

SpecCap == InitCap /\ [][NextCap]_vars

-----------------------------------------------------------------------------
(* The popup and the import on a catalog of one asset, with every            *)
(* combination of extraction, content and task at its download url          *)

UnknownId == 0

InitDispatch ==
    /\ InitSnapshot({"MODEL_MMD"}, {{"a"}})
    /\ query = Query("MODEL_MMD", <<>>, Tags(FALSE, FALSE), FALSE)
    /\ InitView

NextDispatch ==
    \/ \E id \in CatalogIds \cup {UnknownId} : DrawDetailPopup(id)
    \/ \E id \in CatalogIds \cup {UnknownId} : AssetImport(id)

SpecDispatch == InitDispatch /\ [][NextDispatch]_vars

-----------------------------------------------------------------------------
(* The dispatcher's commands beside a search, on the first asset of the      *)
(* catalog, with the content cache's fetches                                 *)

DownloadUrls == {ASSETS[i].download_url : i \in DOMAIN ASSETS}

NextDownload ==
    \/ \E sync \in {{}, ShownIds} :
          Search(TimeAdvance(time_ns, [epochs |-> 0, ns |-> 1024]), sync)
    \/ \E c \in pending : Deliver(c)
    \/ \E id \in CatalogIds \cup {UnknownId}, sync \in BOOLEAN : AssetDownload(id, sync)
    \/ \E i \in DOMAIN downloads : DeliverDownload(i)
    \/ \E id \in CatalogIds \cup {UnknownId} : AssetDownloadCancel(id)
    \/ \E id \in CatalogIds \cup {UnknownId} : AssetImport(id)
    \/ \E url \in DownloadUrls : CacheRun(url)
    \/ \E url \in DownloadUrls : \E content \in FetchOutcomes(url) : CacheFinish(url, content)

\* one asset, whose archive is cached or was never requested
InitDownload ==
    /\ ASSETS = SubSeq(MainCatalog, 1, 1)
    /\ extracted = {}
    /\ \E content \in {None, Content("CACHED", download_url(1))} :
          contents = [u \in CatalogUrls(SubSeq(MainCatalog, 1, 1)) |->
                        IF u = download_url(1) THEN content ELSE None]
    /\ tasks = [u \in CatalogUrls(SubSeq(MainCatalog, 1, 1)) |-> None]
    /\ query = Query("MODEL_MMD", <<>>, Tags(FALSE, FALSE), FALSE)
    /\ InitView

SpecDownload == InitDownload /\ [][NextDownload]_vars

-----------------------------------------------------------------------------
(* AssetSearch.execute and _on_thumbnail_fetched statement by statement: the *)
(* content cache invokes the completion on a thread of its own while the    *)
(* operator runs.  panels.py takes no lock.                                  *)

\* lines 87-89: the completion reads result.update_time and returns if it is
\* not the captured one
HandlerCheck(c) ==
    /\ threads.handler = None
    /\ c \in pending
    /\ pending' = pending \ {c}
    /\ threads' = [threads EXCEPT !.handler =
                      IF result.update_time # c.update_time THEN None
                      ELSE [closure |-> c, pc |-> "add"]]
    /\ UNCHANGED <<catalogVars, query, viewVars, time_ns, stamps, requested,
                   import_calls, popup, downloads, last>>

\* lines 91-92: the completion appends its asset id
HandlerAdd ==
    /\ threads.handler # None
    /\ threads.handler.pc = "add"
    /\ result' = [result EXCEPT !.asset_items = Append(@, threads.handler.closure.asset)]
    /\ threads' = [threads EXCEPT !.handler.pc = "load"]
    /\ UNCHANGED <<catalogVars, query, PREVIEWS, loads, region_redraw, pending, time_ns,
                   stamps, requested, import_calls, popup, downloads, last>>

\* lines 94-98: the completion loads the thumbnail and tags the region
HandlerLoad ==
    /\ threads.handler # None
    /\ threads.handler.pc = "load"
    /\ LET asset_id == threads.handler.closure.asset
       IN /\ PREVIEWS' = PREVIEWS \cup {asset_id}
          /\ loads' = IF asset_id \notin PREVIEWS THEN load(loads, asset_id) ELSE loads
    /\ region_redraw' = TRUE
    /\ threads' = [threads EXCEPT !.handler = None]
    /\ last' = [op |-> "deliver", closure |-> threads.handler.closure]
    /\ UNCHANGED <<catalogVars, query, result, pending, time_ns, stamps, requested,
                   import_calls, popup, downloads>>

\* lines 103-123: execute() filters the catalog and reads the clock
SearchScan(now) ==
    /\ threads.search = None
    /\ Len(stamps) < MaxSearches
    /\ Cardinality(pending) + Len(displayed(search_results(query))) <= MaxPending
    /\ time_ns' = now
    /\ threads' = [threads EXCEPT !.search =
                      [pc |-> "reset", found |-> search_results(query),
                       update_time |-> to_int32(ShiftRight10(now))]]
    /\ UNCHANGED <<catalogVars, query, viewVars, pending, stamps, requested,
                   import_calls, popup, downloads, last>>

\* lines 124-127: execute() stores the counts and clears asset_items
SearchReset ==
    /\ threads.search # None
    /\ threads.search.pc = "reset"
    /\ result' = [result EXCEPT !.count = display_count(Len(threads.search.found)),
                                !.hit_count = Len(threads.search.found),
                                !.asset_items = <<>>]
    /\ threads' = [threads EXCEPT !.search.pc = "store"]
    /\ UNCHANGED <<catalogVars, query, PREVIEWS, loads, region_redraw, pending, time_ns,
                   stamps, requested, import_calls, popup, downloads, last>>

\* line 128: execute() stores the new update_time
SearchStore ==
    /\ threads.search # None
    /\ threads.search.pc = "store"
    /\ result' = [result EXCEPT !.update_time = threads.search.update_time]
    /\ stamps' = Append(stamps, threads.search.update_time)
    /\ threads' = [threads EXCEPT !.search.pc = "issue"]
    /\ UNCHANGED <<catalogVars, query, PREVIEWS, loads, region_redraw, pending, time_ns,
                   requested, import_calls, popup, downloads, last>>

\* lines 130-136: execute() requests the thumbnails and returns
SearchIssue ==
    /\ threads.search # None
    /\ threads.search.pc = "issue"
    /\ LET shown == displayed(threads.search.found)
       IN /\ pending' = pending \cup
                {Closure(Len(stamps), threads.search.update_time, shown[i].id) : i \in DOMAIN shown}
          /\ requested' = {shown[i].id : i \in DOMAIN shown}
          /\ last' = [op |-> "search", sync |-> {},
                      requests |-> [i \in DOMAIN shown |-> shown[i].thumbnail_url]]
    /\ threads' = [threads EXCEPT !.search = None]
    /\ UNCHANGED <<catalogVars, query, viewVars, time_ns, stamps, import_calls, popup, downloads>>

NextThreads ==
    \/ SearchScan(TimeAdvance(time_ns, [epochs |-> 0, ns |-> 1024]))
    \/ SearchReset
    \/ SearchStore
    \/ SearchIssue
    \/ \E c \in pending : HandlerCheck(c)
    \/ HandlerAdd
    \/ HandlerLoad

SpecThreads == InitOperators /\ [][NextThreads]_vars

-----------------------------------------------------------------------------
(* AssetDetailPopup.draw with get_asset_state lookup by lookup, while the     *)
(* content cache fetches the archive of the one asset, which was requested  *)

\* lines 49-56 of get_asset_state: the result for the task found
get_asset_state_of_task(task) ==
    IF task = None THEN AssetStateOf("INITIALIZED", None, None)
    ELSE IF task.state \in {"QUEUING", "RUNNING"} THEN AssetStateOf("DOWNLOADING", None, task)
    ELSE AssetStateOf("UNKNOWN", None, None)

Drawn(asset_id, resolved) ==
    /\ popup' = [asset_id |-> asset_id, resolved |-> resolved,
                 operator |-> offered_operator(resolved.state)]
    /\ last' = [op |-> "detail", asset_id |-> asset_id, outcome |-> "FINISHED"]

\* draw() up to line 40 of get_asset_state: the extraction and the content are
\* looked up; with a content record, or extracted, the call returns
ResolveContent(asset_id) ==
    /\ threads.resolver = None
    /\ ~is_missing(asset_id)
    /\ LET asset == AssetOf(asset_id)
       IN IF is_extracted(asset.id) \/ try_get_content(asset.download_url) # None
          THEN /\ Drawn(asset_id, get_asset_state(asset))
               /\ UNCHANGED threads
          ELSE /\ threads' = [threads EXCEPT !.resolver = [asset_id |-> asset_id, pc |-> "task"]]
               /\ UNCHANGED <<popup, last>>
    /\ UNCHANGED <<catalogVars, searchVars, import_calls, downloads>>

\* lines 49-56 of get_asset_state and the rest of draw(): the task is looked up
ResolveTask ==
    /\ threads.resolver # None
    /\ threads.resolver.pc = "task"
    /\ LET asset == AssetOf(threads.resolver.asset_id)
       IN Drawn(asset.id, get_asset_state_of_task(try_get_task(asset.download_url)))
    /\ threads' = [threads EXCEPT !.resolver = None]
    /\ UNCHANGED <<catalogVars, searchVars, import_calls, downloads>>

\* the state after AssetDownload.execute for the one asset, whose archive was
\* never requested before
InitResolve ==
    /\ ASSETS = SubSeq(MainCatalog, 1, 1)
    /\ extracted = {}
    /\ contents = [u \in CatalogUrls(SubSeq(MainCatalog, 1, 1)) |-> None]
    /\ tasks = [u \in CatalogUrls(SubSeq(MainCatalog, 1, 1)) |->
                  IF u = download_url(1) THEN Task("QUEUING") ELSE None]
    /\ query = Query("MODEL_MMD", <<>>, Tags(FALSE, FALSE), FALSE)
    /\ result = InitResult
    /\ PREVIEWS = {}
    /\ region_redraw = FALSE
    /\ pending = {}
    /\ time_ns = InitTime
    /\ stamps = <<>>
    /\ import_calls = <<>>
    /\ popup = None
    /\ last = [op |-> "download", asset_id |-> 1, outcome |-> "FINISHED"]
    /\ loads = NewCollection
    /\ requested = {}
    /\ downloads = download_requests(<<>>, MainCatalog[1])
    /\ threads = NoThreads

NextResolve ==
    \/ \E id \in CatalogIds : ResolveContent(id)
    \/ ResolveTask
    \/ \E url \in DownloadUrls : CacheRun(url)
    \/ \E url \in DownloadUrls : \E content \in FetchOutcomes(url) : CacheFinish(url, content)
    \/ \E id \in CatalogIds, sync \in BOOLEAN : AssetDownload(id, sync)
    \/ \E i \in DOMAIN downloads : DeliverDownload(i)

SpecResolve == InitResolve /\ [][NextResolve]_vars

-----------------------------------------------------------------------------
(* AssetSearchPanel: register(), unregister() and draw(), beside the search  *)
(* on the first two assets of the catalog                                   *)

\* the condition of the panel's 'Loading...' label (line 316)
loading == result.count > Len(result.asset_items)

\* AssetSearchPanel.register, which Blender calls when the add-on is enabled:
\* PREVIEWS names a new, empty collection
Register ==
    /\ ~loads.open
    /\ PREVIEWS' = {}
    /\ loads' = NewCollection
    /\ last' = [op |-> "register"]
    /\ UNCHANGED <<catalogVars, query, result, region_redraw, pending, time_ns, stamps,
                   requested, dispatchVars>>

\* AssetSearchPanel.unregister, which Blender calls when the add-on is disabled:
\* bpy.utils.previews.remove closes the collection PREVIEWS names, which
\* empties it; PREVIEWS goes on naming it
Unregister ==
    /\ loads.open
    /\ PREVIEWS' = {}
    /\ loads' = [loads EXCEPT !.open = FALSE]
    /\ last' = [op |-> "unregister"]
    /\ UNCHANGED <<catalogVars, query, result, region_redraw, pending, time_ns, stamps,
                   requested, dispatchVars>>

\* AssetSearchPanel.draw: PREVIEWS[asset.id] raises KeyError for an id that
\* has no thumbnail in the collection
DrawPanel ==
    /\ loads.open
    /\ last' = [op |-> "draw",
                outcome |-> IF \E i \in DOMAIN result.asset_items :
                                  result.asset_items[i] \notin PREVIEWS
                            THEN "KeyError" ELSE "FINISHED",
                loading |-> loading]
    /\ UNCHANGED <<catalogVars, searchVars, dispatchVars>>

\* the operator and the panel are there while the add-on is enabled; the
\* content cache delivers the completions at any time
NextRegistry ==
    \/ \E sync \in SUBSET ShownIds :
          loads.open /\ Search(TimeAdvance(time_ns, [epochs |-> 0, ns |-> 1024]), sync)
    \/ \E c \in pending : Deliver(c)
    \/ Register
    \/ Unregister
    \/ DrawPanel

SpecRegistry == InitOperators /\ [][NextRegistry]_vars

-----------------------------------------------------------------------------
(* The search on the first two assets of the catalog, where the content     *)
(* cache in the end delivers every completion of the latest execute(); the  *)
(* completions of earlier ones it may deliver or keep                       *)

DeliverLatest == \E c \in pending : c.search = Len(stamps) /\ Deliver(c)

NextLive ==
    \/ \E d \in ClockDeltas, sync \in SUBSET ShownIds : Search(TimeAdvance(time_ns, d), sync)
    \/ \E c \in pending : Deliver(c)
    \/ DrawPanel

SpecLive == InitOperators /\ [][NextLive]_vars /\ WF_vars(DeliverLatest)

-----------------------------------------------------------------------------
(* Properties of the search coordinator *)

\* the ids of the displayed matches of the current query whose completion ran
\* inside async_get_content, in the order of the requests
SyncIds(sync) ==
    LET shown == displayed(search_results(query))
        ids == [i \in DOMAIN shown |-> shown[i].id]
    IN SelectSeq(ids, LAMBDA id : id \in sync)

\* C1: a completion whose closure was created by an execute() of AssetSearch
\* that is no longer the latest one never changes result.asset_items.
C1_SupersededCompletionNeverAppends ==
    [][\A c \in pending :
          (pending' = pending \ {c} /\ c.search < Len(stamps))
              => result'.asset_items = result.asset_items]_vars

\* C2: the update_time an execute() of AssetSearch stores differs from the
\* update_time stored by every earlier execute().
C2_StampsDistinct ==
    \A i, j \in DOMAIN stamps : i < j => stamps[i] # stamps[j]

\* C3: delivering a completion whose captured update_time differs from
\* result.update_time leaves result (asset_items, hit_count, count,
\* update_time) and PREVIEWS unchanged and does not tag the region for redraw.
\* The same holds of AddAssetThumbnail invoked with a stale update_time.
C3_StaleCompletionChangesNothing ==
    [][/\ \A c \in pending :
             (pending' = pending \ {c} /\ c.update_time # result.update_time)
                 => UNCHANGED <<result, PREVIEWS, region_redraw>>
       /\ (last'.op = "add_asset_thumbnail" /\ last'.update_time # result.update_time)
             => UNCHANGED <<result, PREVIEWS, region_redraw>>]_vars

C3_Witness ==
    /\ last.op = "deliver"
    /\ last.closure.update_time # result.update_time
    /\ last.closure.search < Len(stamps)
    /\ result.asset_items # <<>>

\* C4: when execute() of AssetSearch returns, result.asset_items holds exactly
\* the ids whose completion was invoked inside async_get_content, in request
\* order, and result carries the counts and the stamp of this execute(): the
\* reset ran before the first request and not again.
C4_SynchronousCompletionsSurvive ==
    [][Len(stamps') > Len(stamps) =>
          /\ result'.asset_items = SyncIds(last'.sync)
          /\ result'.update_time = stamps'[Len(stamps')]
          /\ result'.hit_count = Len(search_results(query))]_vars

C4_Witness ==
    /\ last.op = "search"
    /\ last.sync # {}
    /\ \E i \in DOMAIN result.asset_items : result.asset_items[i] \in last.sync

-----------------------------------------------------------------------------
(* Properties of the filter of execute(), on the catalog of one asset *)

TheAsset == ASSETS[1]
TheContent == contents[TheAsset.download_url]
TheTask == tasks[TheAsset.download_url]

\* the names of the query's enabled tags
EnabledNames == {t.name : t \in {query.tags[i] : i \in {j \in DOMAIN query.tags : query.tags[j].enabled}}}

\* the filters of execute() other than the one on cached assets
OtherFiltersPass ==
    /\ query.type = TheAsset.type
    /\ EnabledNames \subseteq TheAsset.tag_names
    /\ IsSubstring(Lower(query.text), TheAsset.keywords)

Searched == Len(stamps) > 0

\* C6: the asset passes the cached-only filter of execute() if and only if it
\* is extracted or the content at its download url exists and is CACHED.
C6_ImportableIffExtractedOrCached ==
    (Searched /\ query.is_cached /\ OtherFiltersPass) =>
        (result.hit_count = 1 <=>
            (1 \in extracted \/ (TheContent # None /\ TheContent.state = "CACHED")))

\* C7: an asset that is not extracted, has no content and has a task at its
\* download url is not among the hits when query.is_cached is set and is among
\* them (the other filters passing) when it is not set.
C7_TaskOnlyExcludedWhenCachedOnly ==
    (Searched /\ 1 \notin extracted /\ TheContent = None /\ TheTask # None /\ OtherFiltersPass) =>
        result.hit_count = (IF query.is_cached THEN 0 ELSE 1)

C7_Witness ==
    /\ Searched /\ 1 \notin extracted /\ TheContent = None /\ OtherFiltersPass
    /\ TheTask # None /\ TheTask.state = "RUNNING"
    /\ query.is_cached
    /\ result.hit_count = 0

\* C8: with the other filters passing, the asset is a hit if and only if
\* every enabled tag name of the query is among the asset's tag names; the
\* disabled tags play no part.
C8_TagFilterIsConjunction ==
    (Searched /\ query.type = TheAsset.type /\ IsSubstring(Lower(query.text), TheAsset.keywords)
        /\ (query.is_cached => is_importable(TheAsset))) =>
        (result.hit_count = 1 <=> EnabledNames \subseteq TheAsset.tag_names)

C8_Witness ==
    /\ Searched
    /\ TheAsset.tag_names = {"a", "b"}
    /\ EnabledNames = {"a", "b"}
    /\ result.hit_count = 1
    /\ result.asset_items = <<1>>

-----------------------------------------------------------------------------
(* Properties of the display limit *)

\* the positions in the catalog of the assets that match the current query
MatchingPositions == {i \in DOMAIN ASSETS : asset_matches(ASSETS[i], query)}

\* the first k of the positions M
FirstOf(M, k) == {i \in M : Cardinality({m \in M : m < i}) < k}

\* C9: an execute() of AssetSearch with N matching assets stores hit_count = N
\* and count = min(50, N) and requests exactly min(50, N) thumbnails, those of
\* the first min(50, N) matches, in catalog order; each request's completion
\* has either run or is outstanding.
C9_DisplayLimit ==
    [][Len(stamps') > Len(stamps) =>
          LET M == MatchingPositions
              N == Cardinality(M)
              k == IF N < 50 THEN N ELSE 50
          IN /\ result'.hit_count = N
             /\ result'.count = k
             /\ Len(last'.requests) = k
             /\ {last'.requests[j] : j \in 1..k} = {ASSETS[i].thumbnail_url : i \in FirstOf(M, k)}
             /\ \A j \in 1..(k - 1) : last'.requests[j][2] < last'.requests[j + 1][2]
             /\ Cardinality(pending' \ pending) + Len(result'.asset_items) = k]_vars

C9_Witness ==
    /\ last.op = "search"
    /\ result.hit_count = 51
    /\ result.count = 50
    /\ Len(last.requests) = 50
    /\ Cardinality(pending) = 2
    /\ Len(result.asset_items) = 48

-----------------------------------------------------------------------------
(* Properties of the resolver and of the import, on the catalog of one asset *)

Resolved(state, content, task) == [state |-> state, content |-> content, task |-> task]

\* C5: get_asset_state returns the result of the first matching rule of:
\* extracted -> (EXTRACTED, None, None); content CACHED -> (CACHED, content,
\* None); content FAILED -> (FAILED, content, None); content in another state
\* -> UNKNOWN; no task -> INITIALIZED; task QUEUING or RUNNING ->
\* (DOWNLOADING, None, task); otherwise UNKNOWN.
C5_FirstMatchingRule ==
    (last.op = "detail" /\ last.outcome = "FINISHED") =>
        LET r == popup.resolved
            ext == 1 \in extracted
            c == TheContent
            t == TheTask
        IN /\ ext => r = Resolved("EXTRACTED", None, None)
           /\ (~ext /\ c # None /\ c.state = "CACHED") => r = Resolved("CACHED", c, None)
           /\ (~ext /\ c # None /\ c.state = "FAILED") => r = Resolved("FAILED", c, None)
           /\ (~ext /\ c # None /\ c.state \notin {"CACHED", "FAILED"}) => r = Resolved("UNKNOWN", None, None)
           /\ (~ext /\ c = None /\ t = None) => r = Resolved("INITIALIZED", None, None)
           /\ (~ext /\ c = None /\ t # None /\ t.state \in {"QUEUING", "RUNNING"})
                 => r = Resolved("DOWNLOADING", None, t)
           /\ (~ext /\ c = None /\ t # None /\ t.state \notin {"QUEUING", "RUNNING"})
                 => r = Resolved("UNKNOWN", None, None)

C5_Witness ==
    /\ last.op = "detail" /\ last.outcome = "FINISHED"
    /\ 1 \in extracted
    /\ TheContent # None /\ TheContent.state = "FAILED"
    /\ popup.resolved.state = "EXTRACTED"

\* C10: AssetImport.execute for an asset of the catalog with no content at its
\* download url finishes and calls ASSETS.execute_import_action once, with
\* the asset's id and None as the path.
C10_ImportWithoutContent ==
    [][\A id \in CatalogIds :
          (/\ last'.op = "import" /\ last'.asset_id = id
           /\ (last' # last \/ import_calls' # import_calls)
           /\ try_get_content(download_url(id)) = None)
          => /\ last'.outcome = "FINISHED"
             /\ import_calls' = Append(import_calls, [asset_id |-> id, filepath |-> None])]_vars

C10_Witness ==
    /\ last.op = "import" /\ last.outcome = "FINISHED"
    /\ TheContent = None
    /\ import_calls = <<[asset_id |-> 1, filepath |-> None]>>

-----------------------------------------------------------------------------
(* Properties of the dispatcher's commands *)

\* C11: AssetDownload.execute and AssetImport.execute for an asset id the
\* catalog does not know end in an error (KeyError); the step issues no
\* async_get_content request and no import action, and leaves the cache, the
\* extraction and the search result as they were.
C11_UnknownIdFailsLoudly ==
    [][(/\ last' # last
        /\ last'.op \in {"download", "import"}
        /\ last'.asset_id \notin CatalogIds)
          => /\ last'.outcome = "KeyError"
             /\ UNCHANGED <<downloads, import_calls, catalogVars, pending, result>>]_vars

C11_Witness ==
    /\ last = [op |-> "download", asset_id |-> UnknownId, outcome |-> "KeyError"]
    /\ result.asset_items = <<1>>
    /\ Len(downloads) = 1
    /\ Len(import_calls) = 1

\* C12: AssetDownload.execute for an asset of the catalog makes exactly one
\* call of async_get_content, with the asset's download url, and leaves
\* result and the thumbnail completions as they were; the completion of a
\* download leaves result as it was; AssetDownloadCancel makes no call and
\* changes nothing; AssetImport.execute leaves result as it was.
C12_DispatcherLeavesResult ==
    [][/\ (/\ last'.op = "download" /\ last'.outcome = "FINISHED"
           /\ (last' # last \/ downloads' # downloads))
             => /\ Len(downloads') = Len(downloads) + 1
                /\ SubSeq(downloads', 1, Len(downloads)) = downloads
                /\ downloads'[Len(downloads')].url = download_url(last'.asset_id)
                /\ UNCHANGED <<result, pending, import_calls>>
       /\ (\E i \in DOMAIN downloads : ~downloads[i].delivered /\ downloads'[i].delivered)
             => UNCHANGED result
       /\ (last'.op = "on_fetched" /\ last' # last) => UNCHANGED result
       /\ (last'.op = "download_cancel" /\ last' # last)
             => UNCHANGED <<catalogVars, searchVars, dispatchVars>>
       /\ (last'.op = "import" /\ (last' # last \/ import_calls' # import_calls))
             => UNCHANGED <<result, downloads>>]_vars

C12_Witness ==
    /\ last.op = "on_fetched"
    /\ result.asset_items = <<1>>
    /\ downloads[last.request].delivered
    /\ contents[download_url(1)].state = "FAILED"

-----------------------------------------------------------------------------
(* Properties of the order and the extent of the result *)

\* C13: between two executions of AssetSearch the completions are delivered
\* in any order, and result.asset_items changes only by the delivery of a
\* completion of the latest execute(), which appends its asset id: the
\* sequence is the ids of the delivered completions of the latest execute()
\* in the order of their delivery, and nothing is removed or reordered.
C13_ArrivalOrder ==
    [][Len(stamps') = Len(stamps) =>
          /\ \A c \in pending :
                (pending' = pending \ {c} /\ c.search = Len(stamps))
                    => result'.asset_items = Append(result.asset_items, c.asset)
          /\ result'.asset_items # result.asset_items
                => \E c \in pending :
                      /\ pending' = pending \ {c}
                      /\ c.search = Len(stamps)
                      /\ result'.asset_items = Append(result.asset_items, c.asset)]_vars

\* C18: result.asset_items has no id twice, holds only ids of the first
\* min(50, hit_count) matches of the latest execute() of AssetSearch, and is
\* no longer than result.count.
C18_ResultWithinRequested ==
    /\ \A i, j \in DOMAIN result.asset_items :
          i # j => result.asset_items[i] # result.asset_items[j]
    /\ \A i \in DOMAIN result.asset_items : result.asset_items[i] \in requested
    /\ Len(result.asset_items) <= result.count

-----------------------------------------------------------------------------
(* Properties of the completion running beside execute() *)

\* C14: whenever the completion appends its asset id (lines 91-92), the
\* update_time it captured is the one result holds at that moment: no
\* execute() of AssetSearch has cleared asset_items and stored a new
\* update_time between the completion's comparison and its append.
C14_CheckAndAppendAtomic ==
    [][(/\ threads.handler # None
        /\ threads.handler.pc = "add"
        /\ result'.asset_items # result.asset_items)
          => threads.handler.closure.update_time = result.update_time]_vars

-----------------------------------------------------------------------------
(* Properties of the UNKNOWN state, on the catalog of one asset *)

\* C15 as stated: get_asset_state returns UNKNOWN only when there is a content
\* record at the download url whose state is neither CACHED nor FAILED; with
\* no content record it does not return UNKNOWN, whatever the task's state.
C15_UnknownOnlyWithContent ==
    (last.op = "detail" /\ last.outcome = "FINISHED" /\ popup.resolved.state = "UNKNOWN")
        => (TheContent # None /\ TheContent.state \notin {"CACHED", "FAILED"})

\* C15 as amended: get_asset_state returns UNKNOWN exactly when the asset is
\* not extracted and either the content record at the download url is in a
\* state other than CACHED and FAILED, or there is no content record and the
\* task at the url is in a state other than QUEUING and RUNNING (DONE).
C15_UnknownCases ==
    (last.op = "detail" /\ last.outcome = "FINISHED") =>
        (popup.resolved.state = "UNKNOWN" <=>
            /\ 1 \notin extracted
            /\ \/ TheContent # None /\ TheContent.state \notin {"CACHED", "FAILED"}
               \/ /\ TheContent = None
                  /\ TheTask # None
                  /\ TheTask.state \notin {"QUEUING", "RUNNING"})

C15_Witness ==
    /\ last.op = "detail" /\ last.outcome = "FINISHED"
    /\ 1 \notin extracted
    /\ TheContent = None
    /\ TheTask # None /\ TheTask.state = "DONE"
    /\ popup.resolved = Resolved("UNKNOWN", None, None)

-----------------------------------------------------------------------------
(* Properties of the resolver beside the content cache's fetch *)

\* the download of the one asset was requested: a task or a content record is
\* at its download url
Requested == TheTask # None \/ TheContent # None

\* C16: for the asset, which is not extracted and whose download was
\* requested (at every moment a task or a content record is at its download
\* url), get_asset_state returns neither INITIALIZED nor UNKNOWN, also when
\* the fetch ends between its two lookups.
C16_ResolverSeesOneSnapshot ==
    (Requested /\ last.op = "detail" /\ 1 \notin extracted)
        => popup.resolved.state \notin {"INITIALIZED", "UNKNOWN"}

-----------------------------------------------------------------------------
(* Properties of the preview collection *)

\* C17: while the panel is registered, every asset id of result.asset_items
\* has a thumbnail in the collection PREVIEWS names, so that draw() finds
\* PREVIEWS[asset.id]; and in the lifetime of one collection PREVIEWS.load is
\* called at most once for an asset id.
C17_EveryItemHasThumbnail ==
    /\ loads.open => \A i \in DOMAIN result.asset_items : result.asset_items[i] \in PREVIEWS
    /\ \A id \in DOMAIN loads.count : loads.count[id] <= 1

-----------------------------------------------------------------------------
(* Properties of the completion of a search *)

\* C19: when the n-th execute() of AssetSearch is the last one and each of its
\* completions is delivered in the end, then at some moment after it
\* asset_items is as long as result.count, and from some moment on the
\* condition of 'Loading...' (count > len(asset_items)) is false for good;
\* and at every moment an asset the latest execute() requested is among
\* asset_items or its completion is still outstanding.
C19_EventuallyLoaded ==
    /\ [](\A id \in requested :
            \/ \E i \in DOMAIN result.asset_items : result.asset_items[i] = id
            \/ Closure(Len(stamps), result.update_time, id) \in pending)
    /\ \A n \in 1..MaxSearches :
          <>[](Len(stamps) = n)
              => /\ <>(Len(stamps) = n /\ Len(result.asset_items) = result.count)
                 /\ <>[](~loading)

C19_Witness ==
    /\ Len(stamps) = 2
    /\ last.op = "deliver"
    /\ last.closure.search = 2
    /\ pending = {}
    /\ result.count = 2
    /\ Len(result.asset_items) = result.count
    /\ ~loading

-----------------------------------------------------------------------------
(* Properties of the path AssetImport forwards, on the catalog of one asset *)

\* C20: AssetImport.execute passes a path other than None to
\* ASSETS.execute_import_action only when the content record at the asset's
\* download url is CACHED; when the record is FAILED the path it passes is
\* None.
C20_PathOnlyWhenCached ==
    [][\A id \in CatalogIds :
          (/\ last'.op = "import" /\ last'.asset_id = id /\ last'.outcome = "FINISHED"
           /\ import_calls' # import_calls)
          => LET content == try_get_content(download_url(id))
                 path == import_calls'[Len(import_calls')].filepath
             IN /\ path # None => (content # None /\ content.state = "CACHED")
                /\ (content # None /\ content.state = "FAILED") => path = None]_vars

====
